---- MODULE Spec2Model ----
(***************************************************************************)
(* GPU particle system of roguelike-shaders.                               *)
(*                                                                         *)
(* Two programs live in the repository and both are modelled here:         *)
(*   - src/particle.rs: UpdateSystem (create_emitter, update), Render      *)
(*     (render) and the Emitter they operate on      -> specification Spec *)
(*   - src/lib.rs: display_model, whose frame closure calls run_update and *)
(*     then draws                               -> specification SpecFrame *)
(*                                                                         *)
(* Units.  Floats are modelled as exact integers in fixed units:           *)
(*   time in milliseconds, velocity in 1/1000 units per second, position   *)
(*   in 1/1000000 units, gravity in units per second^2, angles in quarter  *)
(*   turns (PI = 2).  With these units gravity*delta is a velocity and     *)
(*   velocity*delta is a position, without rounding.                       *)
(*                                                                         *)
(* The update kernel (particle-update.glsl) is included by the source with *)
(* include_str! but is not part of the source tree; its per-record         *)
(* behaviour is taken from the specification's section 4.1.                *)
(***************************************************************************)
EXTENDS Integers, Sequences, FiniteSets, TLC

VARIABLES
    program,           \* the linked update program: what particle-update.glsl fixes
    rg_noise,          \* UpdateSystem.rg_noise: the noise texture's texels
    emitter,           \* the Emitter returned by create_emitter, or NoEmitter
    gl,                \* the WebGL context's bindings after the last call
    last,              \* what the last call of the particle.rs API did; last.rendered
                       \* is the buffer index the most recent render read
    latest,            \* the most recent particle state produced (seed or update output)
    older,             \* the particle state produced before `latest`
    nupdates,          \* number of completed UpdateSystem::update calls
    particle_update,   \* lib.rs: the ParticleUpdate owned by the frame closure
    particle_buffers,  \* lib.rs: the two particle buffers of display_model
    rg_noise_texture,  \* lib.rs: ParticleUpdate.rg_noise_texture
    prev_time,         \* lib.rs: prev_time captured by the frame closure
    frame,             \* lib.rs: what the last run of the frame closure did
    stages,            \* what UpdateSystem::new and Render::new were given and returned
    emitters,          \* the Emitters one UpdateSystem serves; their buffers are handles
    buffer_store       \* the context's buffer objects: handle -> contents

vars == <<program, rg_noise, emitter, gl, last, latest, older, nupdates,
          particle_update, particle_buffers, rg_noise_texture, prev_time, frame,
          stages, emitters, buffer_store>>

sharedVars == <<emitters, buffer_store>>

libVars == <<particle_update, particle_buffers, rg_noise_texture, prev_time, frame>>

----------------------------------------------------------------------------
(* Bounds of the model *)

MaxGen == 3          \* update is called at most MaxGen times per emitter
MaxParticles == 2    \* num_particles is drawn from 1..MaxParticles
RandSteps == 2       \* Math.random() returns r/RandSteps, r in 0..RandSteps-1
NoiseSize == 2       \* texels of the noise texture (512*512 in the code)
NoiseMax == 1        \* a noise channel holds 0..NoiseMax (0..255 in the code)
MaxFrames == 3       \* the frame closure runs at most MaxFrames times

(* Program constants *)

OneSecond == 1000    \* the literal 1.0 of `life + 1.0`, in milliseconds

----------------------------------------------------------------------------
(* Vectors (glam::Vec3, [f32; 3]) *)

Vec3(x, y, z) == <<x, y, z>>
ZERO == Vec3(0, 0, 0)
VAdd(a, b) == <<a[1] + b[1], a[2] + b[2], a[3] + b[3]>>
VScale(k, a) == <<k * a[1], k * a[2], k * a[3]>>

NoEmitter == [none |-> TRUE]
NoBinding == -1

----------------------------------------------------------------------------
(* The interleaved record layout *)

\* let num_components = 3 + 1 + 1 + 3;
num_components == 3 + 1 + 1 + 3

\* The attribute pointers create_emitter sets on each vertex array object:
\* (size, offset in floats) of i_Position, i_Age, i_Life, i_Velocity.
UpdateAttribs ==
    [i_pos      |-> [size |-> 3, offset |-> 0],
     i_age      |-> [size |-> 1, offset |-> 3],
     i_life     |-> [size |-> 1, offset |-> 4],
     i_velocity |-> [size |-> 3, offset |-> 5]]

\* The attribute pointers Render::render (and the frame closure) sets.
RenderAttribs ==
    [i_pos  |-> [size |-> 3, offset |-> 0],
     i_age  |-> [size |-> 1, offset |-> 3],
     i_life |-> [size |-> 1, offset |-> 4]]

\* One attribute of vertex i (1-based) of a buffer, as the GL fetches it.
FetchAttrib(buf, i, a) ==
    [k \in 1..a.size |-> buf[(i - 1) * num_components + a.offset + k]]

\* The inputs of the update kernel for vertex i.
FetchVertex(buf, i, attribs) ==
    [i_Position |-> FetchAttrib(buf, i, attribs.i_pos),
     i_Age      |-> FetchAttrib(buf, i, attribs.i_age)[1],
     i_Life     |-> FetchAttrib(buf, i, attribs.i_life)[1],
     i_Velocity |-> FetchAttrib(buf, i, attribs.i_velocity)]

\* The inputs of the render kernel for vertex i (velocity is not consumed).
FetchRenderVertex(buf, i, attribs) ==
    [i_Position |-> FetchAttrib(buf, i, attribs.i_pos),
     i_Age      |-> FetchAttrib(buf, i, attribs.i_age)[1],
     i_Life     |-> FetchAttrib(buf, i, attribs.i_life)[1]]

CaptureVertex_life_before_age(out) ==
    out.v_Position \o <<out.v_Life>> \o <<out.v_Age>> \o out.v_Velocity

\* Some(&["v_Position", "v_Age", "v_Life", "v_Velocity"]), INTERLEAVED_ATTRIBS:
\* the floats captured for one vertex, in the order of the varyings.
CaptureVertex(out) ==
    out.v_Position \o <<out.v_Age>> \o <<out.v_Life>> \o out.v_Velocity

\* Number of whole records a buffer holds.
NumRecords(buf) == Len(buf) \div num_components

----------------------------------------------------------------------------
(* The update kernel, from section 4.1 of the specification *)

\* "If age + delta > life: the particle is respawned."
Respawns(in, u) == in.i_Age + u.u_TimeDelta > in.i_Life

\* A noise channel value k in 0..NoiseMax selects a point of [lo, hi].
Lerp(lo, hi, k) == lo + (k * (hi - lo)) \div NoiseMax

\* Unit vector of a horizontal angle given in quarter turns.
Direction(theta) ==
    CASE theta % 4 = 0 -> Vec3(1, 0, 0)
      [] theta % 4 = 1 -> Vec3(0, 0, 1)
      [] theta % 4 = 2 -> Vec3(-1, 0, 0)
      [] OTHER         -> Vec3(0, 0, -1)

\* The texel the kernel samples for vertex i: per particle, no per-invocation seed.
NoiseTexel(noise, i) == noise[((i - 1) % Len(noise)) + 1]

\* The life bounds of a respawn.  The specification resamples life within the
\* emitter's [min_age, max_age]; the kernel sees only its parameters and its
\* own text, and no caller passes it an age bound, so the bounds are the ones
\* the linked program holds.
KernelMinAge(prog, u) == IF "u_MinAge" \in DOMAIN u THEN u.u_MinAge ELSE prog.min_age
KernelMaxAge(prog, u) == IF "u_MaxAge" \in DOMAIN u THEN u.u_MaxAge ELSE prog.max_age

\* The age bounds the linked program may hold: 0 (a parameter that is never
\* set) or the bounds of the demo, 0.3 and 0.9 seconds, written into the kernel.
ProgramChoices ==
    { [min_age |-> 0, max_age |-> 0], [min_age |-> 300, max_age |-> 900] }

Kernel(prog, u, noise, i, in) ==
    IF Respawns(in, u)
    THEN LET rand  == NoiseTexel(noise, i)
             rand2 == NoiseTexel(noise, i + 1)
             theta == Lerp(u.u_MinTheta, u.u_MaxTheta, rand[1])
             speed == Lerp(u.u_MinSpeed, u.u_MaxSpeed, rand[2])
         IN  [v_Position |-> u.u_Origin,
              v_Age      |-> 0,
              v_Life     |-> Lerp(KernelMinAge(prog, u), KernelMaxAge(prog, u), rand2[1]),
              v_Velocity |-> VScale(speed, Direction(theta))]
    ELSE LET velocity == VAdd(in.i_Velocity, VScale(u.u_TimeDelta, u.u_Gravity))
         IN  [v_Position |-> VAdd(in.i_Position, VScale(u.u_TimeDelta, velocity)),
              v_Age      |-> in.i_Age + u.u_TimeDelta,
              v_Life     |-> in.i_Life,
              v_Velocity |-> velocity]

\* The transform-feedback pass: draw_arrays(POINTS, 0, count) with the kernel,
\* sourcing `src` through the attribute pointers `attribs` and capturing into
\* `dst` from its start; floats of dst beyond the captured ones are kept.
TransformFeedback(prog, u, noise, attribs, src, dst, count) ==
    LET n == IF count < NumRecords(src) THEN count ELSE NumRecords(src)
        captured == [i \in 1..n |->
                        CaptureVertex(Kernel(prog, u, noise, i, FetchVertex(src, i, attribs)))]
    IN  [k \in 1..Len(dst) |->
            IF k <= n * num_components
            THEN captured[((k - 1) \div num_components) + 1][((k - 1) % num_components) + 1]
            ELSE dst[k]]

----------------------------------------------------------------------------
(* src/particle.rs *)

\* One particle of generate_initial_particle_data; r/RandSteps is the value
\* Math.random() returned for it.
InitialParticle(min_age, max_age, r) ==
    LET life == min_age + ((r * (max_age - min_age)) \div RandSteps)
    IN  <<0, 0, 0, life + OneSecond, life, 0, 0, 0>>

generate_initial_particle_data_age_is_life(num_parts, min_age, max_age, rnd) ==
    [k \in 1..(num_parts * num_components) |->
        LET rec == InitialParticle(min_age, max_age, rnd[((k - 1) \div num_components) + 1])
            j   == ((k - 1) % num_components) + 1
        IN  IF j = 4 THEN rec[5] ELSE rec[j]]

generate_initial_particle_data_life_above_max(num_parts, min_age, max_age, rnd) ==
    [k \in 1..(num_parts * num_components) |->
        InitialParticle(max_age, max_age + (max_age - min_age),
                        rnd[((k - 1) \div num_components) + 1])
            [((k - 1) % num_components) + 1]]

generate_initial_particle_data_one_short(num_parts, min_age, max_age, rnd) ==
    [k \in 1..((num_parts - 1) * num_components) |->
        InitialParticle(min_age, max_age, rnd[((k - 1) \div num_components) + 1])
            [((k - 1) % num_components) + 1]]

\* fn generate_initial_particle_data(num_parts, min_age, max_age) -> Vec<f32>;
\* rnd[i] is the random draw of particle i.
generate_initial_particle_data(num_parts, min_age, max_age, rnd) ==
    [k \in 1..(num_parts * num_components) |->
        InitialParticle(min_age, max_age, rnd[((k - 1) \div num_components) + 1])
            [((k - 1) % num_components) + 1]]

\* The Emitter create_emitter builds: both buffers receive the same initial
\* data, vaos[i] points its attributes at buffers[i], generation is 0.
NewEmitter_seeds_first_buffer_only(options, rnd) ==
    LET particle_init_data ==
            generate_initial_particle_data(options.num_particles,
                                           options.min_age, options.max_age, rnd)
    IN  [options    |-> options,
         generation |-> 0,
         buffers    |-> [b \in 0..1 |-> IF b = 0 THEN particle_init_data ELSE <<>>],
         vaos       |-> [v \in 0..1 |-> [buffer |-> v, attribs |-> UpdateAttribs]]]

NewEmitter(options, rnd) ==
    LET particle_init_data ==
            generate_initial_particle_data(options.num_particles,
                                           options.min_age, options.max_age, rnd)
    IN  [options    |-> options,
         generation |-> 0,
         buffers    |-> [b \in 0..1 |-> particle_init_data],
         vaos       |-> [v \in 0..1 |-> [buffer |-> v, attribs |-> UpdateAttribs]]]

\* The allocations create_emitter makes, in program order:
\* [create_buffer(gl)?, create_buffer(gl)?], then two gl.create_vertex_array().
CreateEmitterAllocations ==
    <<"create_buffer", "create_buffer", "create_vertex_array", "create_vertex_array">>

\* The allocations create_emitter attempts when alloc[k] tells whether the
\* k-th one succeeds: `?` returns at the first failure.
CreateEmitterAttempts(alloc) ==
    IF \E k \in 1..4 : ~alloc[k]
    THEN SubSeq(CreateEmitterAllocations, 1,
                CHOOSE k \in 1..4 : ~alloc[k] /\ \A j \in 1..(k - 1) : alloc[j])
    ELSE CreateEmitterAllocations

NoError == ""

CreateEmitterError_vertex_array_unchecked(alloc) ==
    IF ~alloc[1] \/ ~alloc[2] THEN "Could not create buffer" ELSE NoError

\* The Err create_emitter returns, NoError when it returns Ok:
\* create_buffer's format!("Could not create buffer"), or
\* .ok_or("Could not create vertex array")?.
CreateEmitterError(alloc) ==
    IF ~alloc[1] \/ ~alloc[2] THEN "Could not create buffer"
    ELSE IF ~alloc[3] \/ ~alloc[4] THEN "Could not create vertex array"
    ELSE NoError

UpdateReadIndex_same_as_write(generation) == (generation + 1) % 2

\* let read = emitter.generation % 2;
UpdateReadIndex(generation) == generation % 2

UpdateWriteIndex_in_place(generation) == generation % 2

\* let write = (emitter.generation + 1) % 2;
UpdateWriteIndex(generation) == (generation + 1) % 2

UpdateUniforms_origin_gravity_swapped(e, delta) ==
    [u_TimeDelta |-> delta,
     u_Origin    |-> e.options.gravity,
     u_Gravity   |-> e.options.origin,
     u_MinTheta  |-> e.options.min_theta,
     u_MaxTheta  |-> e.options.max_theta,
     u_MinSpeed  |-> e.options.min_speed,
     u_MaxSpeed  |-> e.options.max_speed]

UpdateUniforms_gravity_unset(e, delta) ==
    [u_TimeDelta |-> delta,
     u_Origin    |-> e.options.origin,
     u_Gravity   |-> ZERO,
     u_MinTheta  |-> e.options.min_theta,
     u_MaxTheta  |-> e.options.max_theta,
     u_MinSpeed  |-> e.options.min_speed,
     u_MaxSpeed  |-> e.options.max_speed]

\* The uniforms update sets before the pass.
UpdateUniforms_delta_plus_generation(e, delta) ==
    [u_TimeDelta |-> delta + e.generation,
     u_Origin    |-> e.options.origin,
     u_Gravity   |-> e.options.gravity,
     u_MinTheta  |-> e.options.min_theta,
     u_MaxTheta  |-> e.options.max_theta,
     u_MinSpeed  |-> e.options.min_speed,
     u_MaxSpeed  |-> e.options.max_speed]

UpdateUniforms(e, delta) ==
    [u_TimeDelta |-> delta,
     u_Origin    |-> e.options.origin,
     u_Gravity   |-> e.options.gravity,
     u_MinTheta  |-> e.options.min_theta,
     u_MaxTheta  |-> e.options.max_theta,
     u_MinSpeed  |-> e.options.min_speed,
     u_MaxSpeed  |-> e.options.max_speed]

UpdateSourceBuffer_first_vao(e) == e.vaos[0].buffer

\* The buffer the update sources: the one vaos[read] points at.
UpdateSourceBuffer(e) == e.vaos[UpdateReadIndex(e.generation)].buffer

\* What the pass of update captures, as the new contents of buffers[write].
UpdateOutput(prog, e, noise, delta) ==
    TransformFeedback(prog, UpdateUniforms(e, delta), noise,
                      e.vaos[UpdateReadIndex(e.generation)].attribs,
                      e.buffers[UpdateSourceBuffer(e)],
                      e.buffers[UpdateWriteIndex(e.generation)],
                      e.options.num_particles)

UpdatedEmitter_rejects_negative_delta(prog, e, noise, delta) ==
    IF delta < 0
    THEN e
    ELSE [e EXCEPT !.buffers[UpdateWriteIndex(e.generation)] = UpdateOutput(prog, e, noise, delta),
                   !.generation = e.generation + 1]

\* The records the pass of update captures: one per vertex drawn.
UpdateCapturedCount(e) ==
    LET src == e.buffers[UpdateSourceBuffer(e)]
    IN  IF e.options.num_particles < NumRecords(src)
        THEN e.options.num_particles ELSE NumRecords(src)

\* The emitter after UpdateSystem::update(gl, emitter, delta).
UpdatedEmitter(prog, e, noise, delta) ==
    [e EXCEPT !.buffers[UpdateWriteIndex(e.generation)] = UpdateOutput(prog, e, noise, delta),
              !.generation = e.generation + 1]

\* Some(&emitter.buffers[(emitter.generation + 1) % 2])
RenderBufferIndex(generation) == (generation + 1) % 2

RenderedEmitter_swaps_buffers(e) ==
    [e EXCEPT !.buffers = [b \in 0..1 |-> e.buffers[1 - b]]]

\* The Emitter after Render::render: it is borrowed as &Emitter and no call of
\* render writes a buffer.
RenderedEmitter(e) == e

\* The effect of one call on the context's bindings.
GlApply(g, c) ==
    CASE c.f = "use_program"       -> [g EXCEPT !.program = c.arg]
      [] c.f = "bind_vertex_array" -> [g EXCEPT !.vertex_array = c.arg]
      [] c.f = "enable"            -> [g EXCEPT !.rasterizer_discard = TRUE]
      [] c.f = "disable"           -> [g EXCEPT !.rasterizer_discard = FALSE]
      [] c.f = "bind_buffer_base"  -> [g EXCEPT !.transform_feedback_buffer = c.arg]
      [] c.f = "bind_buffer"       -> [g EXCEPT !.array_buffer = c.arg]
      [] OTHER                     -> g

\* The bindings after a sequence of calls.
RECURSIVE GlRun(_, _)
GlRun(g, calls) ==
    IF calls = <<>> THEN g ELSE GlRun(GlApply(g, Head(calls)), Tail(calls))

UpdateGlCalls_discard_left_enabled(e) ==
    <<[f |-> "use_program",              arg |-> "update"],
      [f |-> "bind_vertex_array",        arg |-> UpdateReadIndex(e.generation)],
      [f |-> "enable",                   arg |-> "RASTERIZER_DISCARD"],
      [f |-> "bind_buffer_base",         arg |-> UpdateWriteIndex(e.generation)],
      [f |-> "begin_transform_feedback", arg |-> "POINTS"],
      [f |-> "draw_arrays",              arg |-> e.options.num_particles],
      [f |-> "end_transform_feedback",   arg |-> NoBinding],
      [f |-> "bind_buffer_base",         arg |-> NoBinding],
      [f |-> "bind_vertex_array",        arg |-> NoBinding]>>

\* The calls of UpdateSystem::update that touch the pipeline state, in program
\* order (the uniform and texture calls before them touch none of it).
UpdateGlCalls(e) ==
    <<[f |-> "use_program",              arg |-> "update"],
      [f |-> "bind_vertex_array",        arg |-> UpdateReadIndex(e.generation)],
      [f |-> "enable",                   arg |-> "RASTERIZER_DISCARD"],
      [f |-> "bind_buffer_base",         arg |-> UpdateWriteIndex(e.generation)],
      [f |-> "begin_transform_feedback", arg |-> "POINTS"],
      [f |-> "draw_arrays",              arg |-> e.options.num_particles],
      [f |-> "end_transform_feedback",   arg |-> NoBinding],
      [f |-> "disable",                  arg |-> "RASTERIZER_DISCARD"],
      [f |-> "bind_buffer_base",         arg |-> NoBinding],
      [f |-> "bind_vertex_array",        arg |-> NoBinding]>>

\* The calls of Render::render that touch the pipeline state, in program order.
RenderGlCalls(e) ==
    <<[f |-> "use_program", arg |-> "render"],
      [f |-> "bind_buffer", arg |-> RenderBufferIndex(e.generation)],
      [f |-> "draw_arrays", arg |-> e.options.num_particles],
      [f |-> "bind_buffer", arg |-> NoBinding]>>

\* The bindings in force when the draw of Render::render executes.
RenderPipelineAtDraw(g, e) == GlRun(g, SubSeq(RenderGlCalls(e), 1, 2))

\* The draw calls of Render::render:
\* gl.draw_arrays(POINTS, 0, emitter.options.num_particles as i32).
RenderDrawCalls(e) ==
    <<[mode |-> "POINTS", first |-> 0, count |-> e.options.num_particles]>>

\* The vertices the draw of Render::render consumes.
RenderedVertices(e) ==
    LET buf == e.buffers[RenderBufferIndex(e.generation)]
        n   == IF e.options.num_particles < NumRecords(buf)
               THEN e.options.num_particles ELSE NumRecords(buf)
    IN  [i \in 1..n |-> FetchRenderVertex(buf, i, RenderAttribs)]

----------------------------------------------------------------------------
(* Inputs *)

\* EmitterOptions the caller may pass: the defaults of `impl Default` with the
\* gravity of the demo, and variations of origin, gravity and the age bounds
\* (equal bounds, and min_age above max_age, which nothing rejects).
OptionProfiles ==
    { [gravity |-> Vec3(0, -2, 0), origin |-> ZERO,                min_age |-> 300, max_age |-> 900],
      [gravity |-> Vec3(0, -2, 0), origin |-> Vec3(1000000, 0, 0), min_age |-> 300, max_age |-> 900],
      [gravity |-> ZERO,           origin |-> Vec3(0, 500000, 0),  min_age |-> 500, max_age |-> 500],
      [gravity |-> Vec3(0, -2, 0), origin |-> ZERO,                min_age |-> 900, max_age |-> 300] }

OptionChoices ==
    { [num_particles |-> n,
       gravity   |-> c.gravity,  origin    |-> c.origin,
       min_age   |-> c.min_age,  max_age   |-> c.max_age,
       min_theta |-> -2,         max_theta |-> 2,
       min_speed |-> 500,        max_speed |-> 1000] :
      n \in 1..MaxParticles, c \in OptionProfiles }

\* Time deltas passed to update, in milliseconds: update validates nothing, so
\* a negative delta is an input like any other.
Deltas == {-1000, 0, 16}

\* Contents generate_random_rg_data may give the noise texture: of all the
\* textures, the ones whose two channels run through 0..NoiseMax from a
\* starting value s, the second channel twice as fast.
NoiseChoices ==
    { [k \in 1..NoiseSize |-> <<(k + s) % (NoiseMax + 1), ((2 * k) + s) % (NoiseMax + 1)>>] :
      s \in 0..NoiseMax }

\* ---------------------------------------------------------------------------
\* particle.rs: construction of the two stages
\* ---------------------------------------------------------------------------

MaxMissing == 1

\* The names UpdateSystem::new and Render::new look up, in program order.
UpdateAttribNames == <<"i_Position", "i_Age", "i_Life", "i_Velocity">>
UpdateUniformNames ==
    <<"u_TimeDelta", "u_RgNoise", "u_Gravity", "u_Origin",
      "u_MinTheta", "u_MaxTheta", "u_MinSpeed", "u_MaxSpeed">>
RenderAttribNames == <<"i_Position", "i_Age", "i_Life">>
RenderUniformNames == <<"u_Projection", "u_View">>

Range(seq) == {seq[k] : k \in 1..Len(seq)}

\* A linked program, as far as the lookups see it: the attribute and uniform
\* names that are active in it.
FullProgram(attribs, uniforms) ==
    [attribs |-> Range(attribs), uniforms |-> Range(uniforms)]

MissingNames(prog, attribs, uniforms) ==
    (Range(attribs) \ prog.attribs) \cup (Range(uniforms) \ prog.uniforms)

\* The linked programs in which at most MaxMissing of the names are absent.
LinkedPrograms(attribs, uniforms) ==
    {prog \in [attribs : SUBSET Range(attribs), uniforms : SUBSET Range(uniforms)] :
        Cardinality(MissingNames(prog, attribs, uniforms)) <= MaxMissing}

\* gl.get_attrib_location(&program, name): the location, or -1 when the name
\* is not an active attribute.
get_attrib_location(prog, names, name) ==
    IF name \in prog.attribs
    THEN (CHOOSE k \in 1..Len(names) : names[k] = name) - 1
    ELSE -1

\* `x as u32` of an i32: a negative x wraps to 2^32 + x, kept symbolically.
AsU32(x) == IF x >= 0 THEN [value |-> x] ELSE [two_pow_32_plus |-> x]

\* get_uniform(gl, &program, name): Ok(location), or
\* Err(format!("Could not get uniform location for {:?}", name)).
get_uniform(prog, name) ==
    IF name \in prog.uniforms
    THEN [ok |-> TRUE, location |-> name]
    ELSE [ok |-> FALSE,
          err |-> [msg |-> "Could not get uniform location for", name |-> name]]

\* The first get_uniform(..)? that returns Err, 0 when all return Ok.
FirstFailedUniform(prog, names) ==
    IF \E k \in 1..Len(names) : ~get_uniform(prog, names[k]).ok
    THEN CHOOSE k \in 1..Len(names) :
            /\ ~get_uniform(prog, names[k]).ok
            /\ \A j \in 1..(k - 1) : get_uniform(prog, names[j]).ok
    ELSE 0

\* The struct literal of both constructors: the attribute locations are cast
\* and stored, each uniform lookup is followed by `?`.
StageLookups(prog, attribs, uniforms) ==
    LET failed == FirstFailedUniform(prog, uniforms)
    IN  IF failed # 0
        THEN [ok |-> FALSE, err |-> get_uniform(prog, uniforms[failed]).err]
        ELSE [ok |-> TRUE,
              attribs  |-> [k \in 1..Len(attribs) |->
                              AsU32(get_attrib_location(prog, attribs, attribs[k]))],
              uniforms |-> [k \in 1..Len(uniforms) |->
                              get_uniform(prog, uniforms[k]).location]]

\* The Result of UpdateSystem::new for a program that compiled and linked:
\* the noise texture is created first, then the names are looked up.
NewUpdateSystem(prog, texture) ==
    IF ~texture
    THEN [ok |-> FALSE, err |-> [msg |-> "Could not create texture handle", name |-> ""]]
    ELSE StageLookups(prog, UpdateAttribNames, UpdateUniformNames)

\* The Result of Render::new for a program that compiled and linked.
NewRender(prog) == StageLookups(prog, RenderAttribNames, RenderUniformNames)

NotCalled == [called |-> FALSE]

NoStages == [update_system |-> NotCalled, render |-> NotCalled]

\* Both stages constructed from programs that have every name.
BothStages ==
    [update_system |->
        [called |-> TRUE, missing |-> {}, texture |-> TRUE,
         result |-> NewUpdateSystem(FullProgram(UpdateAttribNames, UpdateUniformNames), TRUE)],
     render |->
        [called |-> TRUE, missing |-> {}, texture |-> TRUE,
         result |-> NewRender(FullProgram(RenderAttribNames, RenderUniformNames))]]

\* Whether each of the four allocations of create_emitter succeeds.
AllocOutcomes == [1..4 -> BOOLEAN]

\* The draws of Math.random() for n particles.
RandomDraws(n) == [1..n -> 0..(RandSteps - 1)]

NoCall == [op |-> "none", rendered |-> NoBinding]

\* request_animation_frame(g.borrow().as_ref().unwrap()) at the end of
\* display_model: the closure is registered for the next frame.
NoFrame == [n |-> 0, scheduled |-> TRUE]

----------------------------------------------------------------------------
(* Specification Spec: the API of src/particle.rs on one emitter *)

\* After UpdateSystem::new and Render::new: the noise texture is filled, no
\* emitter exists yet, nothing is bound.
Init ==
    /\ program \in ProgramChoices
    /\ rg_noise \in NoiseChoices
    /\ emitter = NoEmitter
    /\ gl = [program |-> "none", vertex_array |-> NoBinding, array_buffer |-> NoBinding,
             transform_feedback_buffer |-> NoBinding, rasterizer_discard |-> FALSE]
    /\ last = NoCall
    /\ latest = <<>>
    /\ older = <<>>
    /\ nupdates = 0
    /\ particle_update = NoEmitter
    /\ particle_buffers = <<>>
    /\ rg_noise_texture = <<>>
    /\ prev_time = 0
    /\ frame = NoFrame
    /\ stages = BothStages
    /\ emitters = <<>>
    /\ buffer_store = <<>>

\* UpdateSystem::create_emitter(gl, options): Ok(Emitter) when every
\* allocation succeeds, otherwise Err and no Emitter.  When a vertex array
\* fails, the second buffer is still bound to ARRAY_BUFFER.
create_emitter(options, rnd, alloc) ==
    /\ emitter = NoEmitter
    /\ IF CreateEmitterError(alloc) = NoError
       THEN /\ emitter' = NewEmitter(options, rnd)
            /\ gl' = [gl EXCEPT !.program = "update", !.vertex_array = NoBinding,
                                !.array_buffer = NoBinding]
            /\ last' = [op |-> "create_emitter", options |-> options, alloc |-> alloc,
                        attempts |-> CreateEmitterAttempts(alloc),
                        rendered |-> NoBinding]
            /\ latest' = emitter'.buffers[0]
            /\ older' = emitter'.buffers[1]
            /\ nupdates' = 0
       ELSE /\ emitter' = emitter
            /\ gl' = IF alloc[1] /\ alloc[2]
                     THEN [gl EXCEPT !.array_buffer = 1]
                     ELSE gl
            /\ last' = [op |-> "create_emitter_err", err |-> CreateEmitterError(alloc),
                        alloc |-> alloc,
                        attempts |-> CreateEmitterAttempts(alloc),
                        rendered |-> NoBinding]
            /\ UNCHANGED <<latest, older, nupdates>>
    /\ UNCHANGED <<program, rg_noise, libVars, stages, sharedVars>>

\* UpdateSystem::update(gl, emitter, delta)
update(delta) ==
    /\ emitter # NoEmitter
    /\ emitter.generation < MaxGen
    /\ emitter' = UpdatedEmitter(program, emitter, rg_noise, delta)
    /\ gl' = GlRun(gl, UpdateGlCalls(emitter))
    /\ last' = [op |-> "update", delta |-> delta,
                calls |-> UpdateGlCalls(emitter),
                read |-> UpdateSourceBuffer(emitter),
                write |-> UpdateWriteIndex(emitter.generation),
                before |-> emitter,
                captured |-> UpdateCapturedCount(emitter),
                rendered |-> last.rendered]
    /\ latest' = UpdateOutput(program, emitter, rg_noise, delta)
    /\ older' = latest
    /\ nupdates' = nupdates + 1
    /\ UNCHANGED <<program, rg_noise, libVars, stages, sharedVars>>

\* Render::render(gl, projection, view, emitter)
render ==
    /\ emitter # NoEmitter
    /\ emitter' = RenderedEmitter(emitter)
    /\ gl' = GlRun(gl, RenderGlCalls(emitter))
    /\ last' = [op |-> "render",
                read |-> RenderBufferIndex(emitter.generation),
                drawn |-> RenderedVertices(emitter),
                draws |-> RenderDrawCalls(emitter),
                at_draw |-> RenderPipelineAtDraw(gl, emitter),
                prev_read |-> IF last.op = "render" THEN last.read ELSE NoBinding,
                prev_drawn |-> IF last.op = "render" THEN last.drawn ELSE <<>>,
                before |-> emitter,
                rendered |-> RenderBufferIndex(emitter.generation)]
    /\ UNCHANGED <<program, rg_noise, latest, older, nupdates, libVars, stages, sharedVars>>

Next ==
    \/ \E options \in OptionChoices :
         \E rnd \in RandomDraws(options.num_particles) :
           \E alloc \in AllocOutcomes : create_emitter(options, rnd, alloc)
    \/ \E delta \in Deltas : update(delta)
    \/ render

Spec == Init /\ [][Next]_vars

----------------------------------------------------------------------------
(* src/lib.rs: display_model and its frame closure *)

\* let num_particles = 800; the model runs the same code on MaxParticles.
LibNumParticles == MaxParticles

\* performance.now() is monotonic: a frame starts 0, 16 or 200 ms after the
\* previous one.
FrameDeltas == {0, 16, 200}

\* let read = state.generation % 2;
RunUpdateReadIndex(generation) == generation % 2

\* let write = (state.generation + 1) % 2;
RunUpdateWriteIndex(generation) == (generation + 1) % 2

\* The uniforms run_update sets: gravity (0,-2,0), origin 0, theta in
\* [-PI, PI], speed in [0.5, 1.0].
RunUpdateUniforms(delta) ==
    [u_TimeDelta |-> delta,
     u_Gravity   |-> Vec3(0, -2, 0),
     u_Origin    |-> ZERO,
     u_MinTheta  |-> -2,
     u_MaxTheta  |-> 2,
     u_MinSpeed  |-> 500,
     u_MaxSpeed  |-> 1000]

\* What the pass of run_update captures, as the new contents of buffers[write].
RunUpdateOutput(prog, state, buffers, noise, delta) ==
    TransformFeedback(prog, RunUpdateUniforms(delta), noise,
                      state.vaos[RunUpdateReadIndex(state.generation)].attribs,
                      buffers[state.vaos[RunUpdateReadIndex(state.generation)].buffer],
                      buffers[RunUpdateWriteIndex(state.generation)],
                      state.num_particles)

\* The buffers after run_update(gl, state, buffers, delta).
RunUpdateBuffers(prog, state, buffers, noise, delta) ==
    [buffers EXCEPT ![RunUpdateWriteIndex(state.generation)] =
                        RunUpdateOutput(prog, state, buffers, noise, delta)]

RunUpdateState_generation_as_parity(state) ==
    [state EXCEPT !.generation = (state.generation + 1) % 2]

RunUpdateState_generation_kept(state) == state

\* state.generation += 1;
RunUpdateState(state) == [state EXCEPT !.generation = state.generation + 1]

FrameDrawIndex_other(generation) == (generation + 1) % 2

\* Some(&particle_buffers[update.generation % 2]), with the generation the
\* frame's run_update has left.
FrameDrawIndex(generation) == generation % 2

\* The calls of one run of the frame closure that touch the particles, in
\* program order: run_update(..), then context.draw_arrays(POINTS, 0, num_particles).
FrameCalls == <<"run_update", "draw_arrays">>

FrameReschedules_never == FALSE

\* request_animation_frame(f.borrow().as_ref().unwrap()) as the closure's last
\* statement: every run registers the closure for the next frame.
FrameReschedules == TRUE

\* The vertices the draw of the frame closure consumes.
FrameDrawnVertices(buf, count) ==
    LET n == IF count < NumRecords(buf) THEN count ELSE NumRecords(buf)
    IN  [i \in 1..n |-> FetchRenderVertex(buf, i, RenderAttribs)]

\* display_model up to the first request_animation_frame: both buffers hold
\* generate_initial_particle_data(num_particles, 0.3, 0.9), setup_particle_update
\* has built the vertex array objects and the noise texture.
InitFrame ==
    /\ program \in ProgramChoices
    /\ rg_noise = <<>>
    /\ emitter = NoEmitter
    /\ gl = [program |-> "update", vertex_array |-> NoBinding, array_buffer |-> NoBinding,
             transform_feedback_buffer |-> NoBinding, rasterizer_discard |-> FALSE]
    /\ last = NoCall
    /\ latest = <<>>
    /\ older = <<>>
    /\ nupdates = 0
    /\ \E rnd \in RandomDraws(LibNumParticles) :
         particle_buffers =
            [b \in 0..1 |-> generate_initial_particle_data(LibNumParticles, 300, 900, rnd)]
    /\ particle_update =
         [num_particles |-> LibNumParticles,
          generation    |-> 0,
          vaos          |-> [v \in 0..1 |-> [buffer |-> v, attribs |-> UpdateAttribs]]]
    /\ rg_noise_texture \in NoiseChoices
    /\ prev_time \in {0, 5000}
    /\ frame = NoFrame
    /\ stages = NoStages
    /\ emitters = <<>>
    /\ buffer_store = <<>>

\* One run of the frame closure, entered at current_time.
Frame(current_time) ==
    LET time_delta == current_time - prev_time
        state1     == RunUpdateState(particle_update)
        buffers1   == RunUpdateBuffers(program, particle_update, particle_buffers,
                                       rg_noise_texture, time_delta)
        draw       == FrameDrawIndex(state1.generation)
    IN  /\ frame.scheduled
        /\ frame.n < MaxFrames
        /\ particle_update' = state1
        /\ particle_buffers' = buffers1
        /\ prev_time' = current_time
        /\ gl' = [gl EXCEPT !.program = "render", !.vertex_array = NoBinding,
                            !.array_buffer = NoBinding,
                            !.transform_feedback_buffer = NoBinding,
                            !.rasterizer_discard = FALSE]
        /\ frame' = [n          |-> frame.n + 1,
                     scheduled  |-> FrameReschedules,
                     calls      |-> FrameCalls,
                     time_delta |-> time_delta,
                     upd_read   |-> particle_update.vaos[
                                       RunUpdateReadIndex(particle_update.generation)].buffer,
                     upd_write  |-> RunUpdateWriteIndex(particle_update.generation),
                     upd_output |-> RunUpdateOutput(program, particle_update, particle_buffers,
                                                    rg_noise_texture, time_delta),
                     draw_read  |-> draw,
                     drawn      |-> FrameDrawnVertices(buffers1[draw], LibNumParticles),
                     before     |-> [particle_update  |-> particle_update,
                                     particle_buffers |-> particle_buffers]]
        /\ UNCHANGED <<program, rg_noise, emitter, last, latest, older, nupdates,
                       rg_noise_texture, stages, sharedVars>>

NextFrame == \E d \in FrameDeltas : Frame(prev_time + d)

SpecFrame == InitFrame /\ [][NextFrame]_vars

\* request_animation_frame: the host runs the registered closure, with a
\* timestamp not before the previous one (only the fields the host fixes).
FrameCallbackRuns ==
    /\ frame.scheduled
    /\ frame.n < MaxFrames
    /\ \E d \in FrameDeltas : prev_time' = prev_time + d

\* The host keeps driving frames: while the closure is registered, a frame
\* with a later timestamp is eventually run.
SpecFrameLive == InitFrame /\ [][NextFrame]_vars /\ WF_prev_time(FrameCallbackRuns)

\* UpdateSystem::new(gl), given the linked update program and whether
\* create_texture succeeds.  On Ok the stage owns a fresh noise texture.
UpdateSystem_new(prog, texture, noise) ==
    /\ ~stages.update_system.called
    /\ stages' = [stages EXCEPT !.update_system =
                    [called  |-> TRUE,
                     missing |-> MissingNames(prog, UpdateAttribNames, UpdateUniformNames),
                     texture |-> texture,
                     result  |-> NewUpdateSystem(prog, texture)]]
    /\ rg_noise' = IF NewUpdateSystem(prog, texture).ok THEN noise ELSE rg_noise
    /\ UNCHANGED <<program, emitter, gl, last, latest, older, nupdates, libVars, sharedVars>>

\* Render::new(gl), given the linked render program.
Render_new(prog) ==
    /\ ~stages.render.called
    /\ stages' = [stages EXCEPT !.render =
                    [called  |-> TRUE,
                     missing |-> MissingNames(prog, RenderAttribNames, RenderUniformNames),
                     texture |-> TRUE,
                     result  |-> NewRender(prog)]]
    /\ UNCHANGED <<program, rg_noise, emitter, gl, last, latest, older, nupdates, libVars,
                   sharedVars>>

InitNew ==
    /\ program \in ProgramChoices
    /\ rg_noise = <<>>
    /\ emitter = NoEmitter
    /\ gl = [program |-> "none", vertex_array |-> NoBinding, array_buffer |-> NoBinding,
             transform_feedback_buffer |-> NoBinding, rasterizer_discard |-> FALSE]
    /\ last = NoCall
    /\ latest = <<>>
    /\ older = <<>>
    /\ nupdates = 0
    /\ particle_update = NoEmitter
    /\ particle_buffers = <<>>
    /\ rg_noise_texture = <<>>
    /\ prev_time = 0
    /\ frame = NoFrame
    /\ stages = NoStages
    /\ emitters = <<>>
    /\ buffer_store = <<>>

NextNew ==
    \/ \E prog \in LinkedPrograms(UpdateAttribNames, UpdateUniformNames) :
         \E texture \in BOOLEAN : \E noise \in NoiseChoices :
           UpdateSystem_new(prog, texture, noise)
    \/ \E prog \in LinkedPrograms(RenderAttribNames, RenderUniformNames) :
         Render_new(prog)

SpecNew == InitNew /\ [][NextNew]_vars

----------------------------------------------------------------------------
(* src/particle.rs: one UpdateSystem, several Emitters *)

MaxEmitters == 2
MaxSharedUpdates == 4

\* The options of the emitters created on the shared context: the demo's
\* field, at the origin or displaced.
SharedOptionChoices ==
    {o \in OptionChoices : o.num_particles = MaxParticles /\ o.min_age = 300 /\ o.max_age = 900}

\* Time deltas of the updates on the shared context, in milliseconds.
SharedDeltas == {-1000, 16}

\* The update calls made so far on the emitters es.
RECURSIVE SharedUpdates(_)
SharedUpdates(es) ==
    IF es = <<>> THEN 0 ELSE Head(es).generation + SharedUpdates(Tail(es))

\* The draws of Math.random() of these creations.
SharedDraws(n) == {[i \in 1..n |-> i % RandSteps]}

FreshBuffers_from_start(store) == <<1, 2>>

\* [create_buffer(gl)?, create_buffer(gl)?]: two buffer objects the context
\* did not hold before.
FreshBuffers(store) == <<Len(store) + 1, Len(store) + 2>>

\* The buffer objects after both handles received the initial data
\* (bind_buffer, buffer_data_with_array_buffer_view for each).
StoreAfterUpload(store, handles, data) ==
    LET top == IF handles[2] > Len(store) THEN handles[2] ELSE Len(store)
    IN  [h \in 1..top |-> IF h = handles[1] \/ h = handles[2] THEN data ELSE store[h]]

\* The Emitter create_emitter returns: its buffers and the buffer each vertex
\* array points at are handles of the context.
SharedEmitter(options, store) ==
    [options    |-> options,
     generation |-> 0,
     buffers    |-> [b \in 0..1 |-> FreshBuffers(store)[b + 1]],
     vaos       |-> [v \in 0..1 |-> [buffer  |-> FreshBuffers(store)[v + 1],
                                     attribs |-> UpdateAttribs]]]

\* The contents update sources for emitter e: the buffer of vaos[read].
SharedCurrent(e, store) == store[e.vaos[UpdateReadIndex(e.generation)].buffer]

\* What update(gl, e, delta) captures into e.buffers[write].
SharedUpdateOutput(prog, e, store, noise, delta) ==
    TransformFeedback(prog, UpdateUniforms(e, delta), noise,
                      e.vaos[UpdateReadIndex(e.generation)].attribs,
                      SharedCurrent(e, store),
                      store[e.buffers[UpdateWriteIndex(e.generation)]],
                      e.options.num_particles)

\* UpdateSystem::create_emitter(gl, options) on a context that already holds
\* the buffers of earlier emitters.
create_emitter_shared(options, rnd) ==
    /\ Len(emitters) < MaxEmitters
    /\ emitters' = Append(emitters, SharedEmitter(options, buffer_store))
    /\ buffer_store' =
         StoreAfterUpload(buffer_store, FreshBuffers(buffer_store),
                          generate_initial_particle_data(options.num_particles,
                                                         options.min_age, options.max_age, rnd))
    /\ gl' = [gl EXCEPT !.program = "update", !.vertex_array = NoBinding,
                        !.array_buffer = NoBinding]
    /\ last' = [op |-> "create_emitter", target |-> Len(emitters) + 1,
                before |-> [emitters |-> emitters, buffer_store |-> buffer_store],
                rendered |-> NoBinding]
    /\ UNCHANGED <<program, rg_noise, emitter, latest, older, nupdates, libVars, stages>>

\* UpdateSystem::update(gl, &mut emitters[k], delta)
update_shared(k, delta) ==
    /\ k \in 1..Len(emitters)
    /\ SharedUpdates(emitters) < MaxSharedUpdates
    /\ buffer_store' =
         [buffer_store EXCEPT ![emitters[k].buffers[UpdateWriteIndex(emitters[k].generation)]] =
            SharedUpdateOutput(program, emitters[k], buffer_store, rg_noise, delta)]
    /\ emitters' = [emitters EXCEPT ![k].generation = @ + 1]
    /\ gl' = GlRun(gl, UpdateGlCalls(emitters[k]))
    /\ last' = [op |-> "update", target |-> k, delta |-> delta,
                before |-> [emitters |-> emitters, buffer_store |-> buffer_store],
                rendered |-> NoBinding]
    /\ UNCHANGED <<program, rg_noise, emitter, latest, older, nupdates, libVars, stages>>

InitShared ==
    /\ program \in ProgramChoices
    /\ rg_noise = [k \in 1..NoiseSize |-> <<k % (NoiseMax + 1), (2 * k) % (NoiseMax + 1)>>]
    /\ emitter = NoEmitter
    /\ gl = [program |-> "none", vertex_array |-> NoBinding, array_buffer |-> NoBinding,
             transform_feedback_buffer |-> NoBinding, rasterizer_discard |-> FALSE]
    /\ last = NoCall
    /\ latest = <<>>
    /\ older = <<>>
    /\ nupdates = 0
    /\ particle_update = NoEmitter
    /\ particle_buffers = <<>>
    /\ rg_noise_texture = <<>>
    /\ prev_time = 0
    /\ frame = NoFrame
    /\ stages = BothStages
    /\ emitters = <<>>
    /\ buffer_store = <<>>

NextShared ==
    \/ \E options \in SharedOptionChoices :
         \E rnd \in SharedDraws(options.num_particles) : create_emitter_shared(options, rnd)
    \/ \E k \in 1..MaxEmitters : \E delta \in SharedDeltas : update_shared(k, delta)

SpecShared == InitShared /\ [][NextShared]_vars

----------------------------------------------------------------------------
(* Reading a particle record by the layout of the specification's section 6:
   Position at float 0 (3), Age at 3, Life at 4, Velocity at 5 (3); stride 8. *)

PositionOf(buf, i) == <<buf[(8 * (i - 1)) + 1], buf[(8 * (i - 1)) + 2], buf[(8 * (i - 1)) + 3]>>
AgeOf(buf, i) == buf[(8 * (i - 1)) + 4]
LifeOf(buf, i) == buf[(8 * (i - 1)) + 5]
VelocityOf(buf, i) == <<buf[(8 * (i - 1)) + 6], buf[(8 * (i - 1)) + 7], buf[(8 * (i - 1)) + 8]>>

----------------------------------------------------------------------------
(* Properties *)

\* C1: every update leaves generation exactly one greater than before the
\* call, whatever the delta (negative included), so that after n updates of a
\* new emitter generation = n.
C1_GenerationIncrementsByOne ==
    /\ emitter # NoEmitter => emitter.generation = nupdates
    /\ last.op = "update" => emitter.generation = last.before.generation + 1

C1_Witness ==
    /\ last.op = "update"
    /\ last.delta < 0
    /\ nupdates >= 2

\* C2: render binds buffers[generation % 2] as its vertex source, after any
\* number of updates (zero included).
C2_RenderBindsCurrentBuffer ==
    last.op = "render" => last.read = last.before.generation % 2

\* C3: the buffer at index generation % 2 holds the latest particle state (the
\* seed, or the output of the most recent update) and the buffer at index
\* (generation + 1) % 2 holds the state produced before it.
C3_CurrentBufferHoldsLatest ==
    emitter # NoEmitter =>
        /\ emitter.buffers[emitter.generation % 2] = latest
        /\ emitter.buffers[(emitter.generation + 1) % 2] = older

C3_Witness ==
    /\ last.op = "render"
    /\ nupdates >= 2
    /\ latest # older

\* C4: update reads buffers[generation % 2] through vaos[generation % 2] and
\* captures into buffers[(generation + 1) % 2]; the two indices differ and the
\* source buffer's contents are the same after the call as before it.
C4_UpdateReadsCurrentWritesOther ==
    last.op = "update" =>
        /\ last.read = last.before.generation % 2
        /\ last.write = (last.before.generation + 1) % 2
        /\ last.read # last.write
        /\ emitter.buffers[last.read] = last.before.buffers[last.read]
        /\ emitter.buffers[last.write] = latest

C4_Witness ==
    /\ last.op = "update"
    /\ nupdates >= 2
    /\ emitter.buffers[last.write] # last.before.buffers[last.write]

\* C5: in a frame, the draw issued after run_update reads exactly the buffer
\* this run_update wrote, and so draws the output of the frame's update.
C5_FrameDrawsFrameOutput ==
    frame.n > 0 =>
        /\ frame.draw_read = frame.upd_write
        /\ particle_buffers[frame.draw_read] = frame.upd_output
        /\ frame.drawn = FrameDrawnVertices(frame.upd_output, LibNumParticles)

C5_Witness ==
    /\ frame.n >= 2
    /\ frame.upd_output # frame.before.particle_buffers[frame.upd_read]

\* C6 (as claimed): within one frame, the buffer index the update writes
\* differs from the buffer index the render reads.
C6_FrameWriteDiffersFromDraw ==
    frame.n > 0 => frame.upd_write # frame.draw_read

\* C6 (amended): within one frame, the buffer index the update reads differs
\* from the buffer index the render reads, and from the one the update writes.
C6_FrameSourceDiffersFromDraw ==
    frame.n > 0 =>
        /\ frame.upd_read # frame.draw_read
        /\ frame.upd_read # frame.upd_write

C6_Witness ==
    /\ frame.n >= 2
    /\ frame.upd_read = 1
    /\ frame.draw_read = 0

\* C7: an update writes the buffer of opposite parity from the one the most
\* recent preceding render read: it never overwrites the buffer last rendered.
C7_UpdateSparesLastRendered ==
    (last.op = "update" /\ last.rendered # NoBinding) => last.write # last.rendered

\* C8: create_emitter returns generation 0 and two buffers holding the same
\* num_particles records, each with position 0, velocity 0, life within
\* [min_age, max_age] when min_age <= max_age, and age = life + 1 > life.
C8_CreatedEmitterIsSeeded ==
    last.op = "create_emitter" =>
        LET o == last.options
            b == emitter.buffers[0]
        IN  /\ emitter.generation = 0
            /\ emitter.options = o
            /\ emitter.buffers[1] = b
            /\ Len(b) = 8 * o.num_particles
            /\ \A i \in 1..o.num_particles :
                 /\ PositionOf(b, i) = ZERO
                 /\ VelocityOf(b, i) = ZERO
                 /\ o.min_age <= o.max_age =>
                        (o.min_age <= LifeOf(b, i) /\ LifeOf(b, i) <= o.max_age)
                 /\ AgeOf(b, i) = LifeOf(b, i) + OneSecond
                 /\ AgeOf(b, i) > LifeOf(b, i)

C8_Witness ==
    /\ last.op = "create_emitter"
    /\ last.options.num_particles >= 2
    /\ last.options.min_age < last.options.max_age
    /\ \E i \in 1..last.options.num_particles :
         LifeOf(emitter.buffers[1], i) > last.options.min_age

\* C9: for a new emitter and every delta >= 0, every particle has
\* age + delta > life at the first update, which therefore respawns all
\* num_particles particles and integrates none.
C9_FirstUpdateRespawnsAll ==
    /\ last.op = "create_emitter" =>
         \A delta \in {d \in Deltas : d >= 0} :
           \A i \in 1..emitter.options.num_particles :
             AgeOf(emitter.buffers[0], i) + delta > LifeOf(emitter.buffers[0], i)
    /\ (last.op = "update" /\ last.before.generation = 0 /\ last.delta >= 0) =>
         \A i \in 1..emitter.options.num_particles :
           /\ AgeOf(last.before.buffers[last.read], i) + last.delta
                > LifeOf(last.before.buffers[last.read], i)
           /\ AgeOf(emitter.buffers[last.write], i) = 0
           /\ PositionOf(emitter.buffers[last.write], i) = emitter.options.origin

C9_Witness ==
    /\ last.op = "update"
    /\ last.before.generation = 0
    /\ last.delta = 0
    /\ emitter.options.num_particles >= 2
    /\ emitter.options.origin # ZERO

\* C10: for every particle of the current buffer with
\* age_before + delta > life_before, the record update writes has position
\* equal to the emitter's origin and age 0.
C10_RespawnResetsPositionAndAge ==
    last.op = "update" =>
        LET cur == last.before.buffers[last.before.generation % 2]
            out == emitter.buffers[(last.before.generation + 1) % 2]
        IN  \A i \in 1..emitter.options.num_particles :
              AgeOf(cur, i) + last.delta > LifeOf(cur, i) =>
                  /\ PositionOf(out, i) = emitter.options.origin
                  /\ AgeOf(out, i) = 0

C10_Witness ==
    /\ last.op = "update"
    /\ last.before.generation >= 1
    /\ emitter.options.origin # ZERO
    /\ \E i \in 1..emitter.options.num_particles :
         LET cur == last.before.buffers[last.before.generation % 2]
         IN  /\ AgeOf(cur, i) + last.delta > LifeOf(cur, i)
             /\ PositionOf(cur, i) # emitter.options.origin

\* C11: for every particle of the current buffer that does not respawn
\* (age_before + delta <= life_before), the record update writes has
\* velocity = velocity_before + gravity*delta,
\* position = position_before + velocity_after*delta,
\* age = age_before + delta, and the life it had.
C11_IntegrationStep ==
    last.op = "update" =>
        LET cur == last.before.buffers[last.before.generation % 2]
            out == emitter.buffers[(last.before.generation + 1) % 2]
        IN  \A i \in 1..emitter.options.num_particles :
              AgeOf(cur, i) + last.delta <= LifeOf(cur, i) =>
                  /\ VelocityOf(out, i) =
                        VAdd(VelocityOf(cur, i), VScale(last.delta, emitter.options.gravity))
                  /\ PositionOf(out, i) =
                        VAdd(PositionOf(cur, i), VScale(last.delta, VelocityOf(out, i)))
                  /\ AgeOf(out, i) = AgeOf(cur, i) + last.delta
                  /\ LifeOf(out, i) = LifeOf(cur, i)

C11_Witness ==
    /\ last.op = "update"
    /\ last.delta > 0
    /\ emitter.options.gravity # ZERO
    /\ \E i \in 1..emitter.options.num_particles :
         LET cur == last.before.buffers[last.before.generation % 2]
         IN  /\ AgeOf(cur, i) + last.delta <= LifeOf(cur, i)
             /\ VelocityOf(cur, i) # ZERO

Abs(x) == IF x < 0 THEN -x ELSE x

C13_ZeroDeltaChangesNothing ==
    (last.op = "update" /\ last.delta = 0) =>
        LET cur == last.before.buffers[last.before.generation % 2]
            out == emitter.buffers[(last.before.generation + 1) % 2]
        IN  \A i \in 1..emitter.options.num_particles :
              /\ PositionOf(out, i) = PositionOf(cur, i)
              /\ VelocityOf(out, i) = VelocityOf(cur, i)
              /\ AgeOf(out, i) = AgeOf(cur, i)

\* C13 (amended): an update with delta = 0 changes neither position, velocity
\* nor age of any particle whose age does not exceed its life.
C13_ZeroDeltaKeepsLiveParticles ==
    (last.op = "update" /\ last.delta = 0) =>
        LET cur == last.before.buffers[last.before.generation % 2]
            out == emitter.buffers[(last.before.generation + 1) % 2]
        IN  \A i \in 1..emitter.options.num_particles :
              AgeOf(cur, i) <= LifeOf(cur, i) =>
                  /\ PositionOf(out, i) = PositionOf(cur, i)
                  /\ VelocityOf(out, i) = VelocityOf(cur, i)
                  /\ AgeOf(out, i) = AgeOf(cur, i)

C13_Witness ==
    /\ last.op = "update"
    /\ last.delta = 0
    /\ emitter.options.gravity # ZERO
    /\ \E i \in 1..emitter.options.num_particles :
         LET cur == last.before.buffers[last.before.generation % 2]
         IN  /\ AgeOf(cur, i) <= LifeOf(cur, i)
             /\ VelocityOf(cur, i) # ZERO
             /\ PositionOf(cur, i) # emitter.options.origin

\* C14: the orchestrator skips the simulation update in every frame whose
\* delta exceeds 150 ms: generation and both buffers are the same after the
\* frame as before it, and the draw shows the unchanged previous generation.
C14_LargeDeltaSkipsUpdate ==
    (frame.n > 0 /\ frame.time_delta > 150) =>
        /\ particle_update.generation = frame.before.particle_update.generation
        /\ particle_buffers = frame.before.particle_buffers
        /\ frame.drawn =
             FrameDrawnVertices(
                frame.before.particle_buffers[frame.before.particle_update.generation % 2],
                LibNumParticles)

\* The positions of a call in the calls of a frame.
CallsOf(calls, name) == {k \in 1..Len(calls) : calls[k] = name}

\* C15: every frame calls update at most once and render exactly once, update
\* first; generation grows by 0 or 1 per frame and is never reduced or reset.
C15_OneUpdateThenOneRenderPerFrame ==
    frame.n > 0 =>
        /\ Cardinality(CallsOf(frame.calls, "run_update")) <= 1
        /\ Cardinality(CallsOf(frame.calls, "draw_arrays")) = 1
        /\ \A u \in CallsOf(frame.calls, "run_update") :
             \A d \in CallsOf(frame.calls, "draw_arrays") : u < d
        /\ particle_update.generation - frame.before.particle_update.generation \in {0, 1}
        /\ particle_update.generation >= frame.before.particle_update.generation
        /\ particle_update.generation <= frame.n

C15_Witness ==
    /\ frame.n >= 3
    /\ particle_update.generation = 3
    /\ frame.before.particle_update.generation = 2

\* C20: the frame loop has no terminal state: every run of the closure
\* registers the next one, and while the host drives frames the generation
\* eventually reaches every n (here every n up to MaxFrames).
C20_FrameLoopNeverEnds ==
    /\ [](frame.scheduled)
    /\ \A n \in 0..MaxFrames : <>(particle_update.generation >= n)

C20_Witness ==
    /\ frame.n = MaxFrames
    /\ frame.scheduled
    /\ particle_update.generation = MaxFrames

\* C16: in every generation the particles update processes and render draws
\* are the num_particles fixed at creation: both buffers hold num_particles
\* records, update captures num_particles records, render issues one draw of
\* num_particles points, and no call changes num_particles.
C16_PopulationSizeIsFixed ==
    /\ emitter # NoEmitter =>
         \A b \in 0..1 : Len(emitter.buffers[b]) = 8 * emitter.options.num_particles
    /\ last.op = "create_emitter" => emitter.options = last.options
    /\ last.op \in {"update", "render"} => emitter.options = last.before.options
    /\ last.op = "update" => last.captured = emitter.options.num_particles
    /\ last.op = "render" =>
         /\ Len(last.draws) = 1
         /\ last.draws[1].count = emitter.options.num_particles
         /\ Len(last.drawn) = emitter.options.num_particles

C16_Witness ==
    /\ last.op = "render"
    /\ nupdates >= 2
    /\ emitter.options.num_particles >= 2

\* C18: create_emitter fails with an error naming the resource when a buffer
\* or a vertex array object cannot be allocated: the error is returned, no
\* allocation is attempted again, and no Emitter is returned; it returns an
\* Emitter only when all four allocations succeed.
C18_CreateEmitterFailsOnAllocation ==
    /\ last.op = "create_emitter_err" =>
         /\ emitter = NoEmitter
         /\ \E k \in 1..4 :
              /\ ~last.alloc[k]
              /\ \A j \in 1..(k - 1) : last.alloc[j]
              /\ last.attempts = SubSeq(CreateEmitterAllocations, 1, k)
              /\ last.err = (IF k <= 2 THEN "Could not create buffer"
                                      ELSE "Could not create vertex array")
    /\ last.op = "create_emitter" =>
         /\ \A k \in 1..4 : last.alloc[k]
         /\ last.attempts = CreateEmitterAllocations

C18_Witness ==
    /\ last.op = "create_emitter_err"
    /\ last.alloc[1] /\ last.alloc[2] /\ last.alloc[3] /\ ~last.alloc[4]
    /\ last.err = "Could not create vertex array"

\* C19: the captured layout mirrors the input layout: the attribute
\* pointers of the vertex array objects and of render use offsets 0, 3, 4, 5
\* (render: 0, 3, 4) in records of 8 floats, and each field the kernel puts
\* out for a record in one update is the same field when the written buffer
\* is read through the pointers of the next update and through those of
\* render.
C19_CaptureMirrorsInputLayout ==
    /\ num_components = 8
    /\ emitter # NoEmitter =>
         \A v \in 0..1 :
           /\ emitter.vaos[v].attribs.i_pos = [size |-> 3, offset |-> 0]
           /\ emitter.vaos[v].attribs.i_age = [size |-> 1, offset |-> 3]
           /\ emitter.vaos[v].attribs.i_life = [size |-> 1, offset |-> 4]
           /\ emitter.vaos[v].attribs.i_velocity = [size |-> 3, offset |-> 5]
    /\ RenderAttribs.i_pos.offset = 0
    /\ RenderAttribs.i_age.offset = 3
    /\ RenderAttribs.i_life.offset = 4
    /\ last.op = "update" =>
         LET e0  == last.before
             u   == UpdateUniforms(e0, last.delta)
             src == e0.buffers[last.read]
             out == emitter.buffers[last.write]
             nextRead == UpdateReadIndex(emitter.generation)
         IN  /\ emitter.vaos[nextRead].buffer = last.write
             /\ \A i \in 1..e0.options.num_particles :
                  LET o == Kernel(program, u, rg_noise, i,
                                  FetchVertex(src, i, e0.vaos[last.read].attribs))
                      nextIn == FetchVertex(out, i, emitter.vaos[nextRead].attribs)
                      drawIn == FetchRenderVertex(out, i, RenderAttribs)
                  IN  /\ nextIn.i_Position = o.v_Position
                      /\ nextIn.i_Age = o.v_Age
                      /\ nextIn.i_Life = o.v_Life
                      /\ nextIn.i_Velocity = o.v_Velocity
                      /\ drawIn.i_Position = o.v_Position
                      /\ drawIn.i_Age = o.v_Age
                      /\ drawIn.i_Life = o.v_Life

C19_Witness ==
    /\ last.op = "update"
    /\ nupdates >= 2
    /\ \E i \in 1..emitter.options.num_particles :
         LET r == FetchVertex(emitter.buffers[last.write], i, UpdateAttribs)
         IN  /\ r.i_Age # r.i_Life
             /\ r.i_Age > 0
             /\ r.i_Velocity # r.i_Position

\* C17: UpdateSystem::new and Render::new fail with an error naming the
\* missing resource whenever a required vertex attribute or a required
\* uniform is not found in the linked program, and return no stage then
\* (checked for calls in which the noise texture could be created).
C17_ConstructionFailsOnMissingName ==
    \A s \in {"update_system", "render"} :
      (stages[s].called /\ stages[s].texture /\ stages[s].missing # {}) =>
         /\ ~stages[s].result.ok
         /\ stages[s].result.err.name \in stages[s].missing

\* C23: render never modifies the field: after render the emitter's
\* generation, options and both buffers are what they were before it, and a
\* render that follows a render reads the same buffer and draws the same
\* vertices.
C23_RenderKeepsField ==
    last.op = "render" =>
        /\ emitter.generation = last.before.generation
        /\ emitter.options = last.before.options
        /\ \A b \in 0..1 : emitter.buffers[b] = last.before.buffers[b]
        /\ last.prev_read # NoBinding =>
             /\ last.read = last.prev_read
             /\ last.drawn = last.prev_drawn

C23_Witness ==
    /\ last.op = "render"
    /\ last.prev_read # NoBinding
    /\ nupdates >= 1
    /\ emitter.buffers[0] # emitter.buffers[1]

\* C24: render never reads a buffer that has not been written: both buffers
\* are seeded at creation, so the buffer render binds holds num_particles
\* whole records, produced by the seeding or by an update, also when render
\* is called before the first update.
C24_RenderReadsWrittenBuffer ==
    /\ last.op = "create_emitter" =>
         \A b \in 0..1 :
           /\ NumRecords(emitter.buffers[b]) = emitter.options.num_particles
           /\ emitter.buffers[b] = latest
    /\ last.op = "render" =>
         LET buf == last.before.buffers[last.read]
         IN  /\ Len(buf) = num_components * emitter.options.num_particles
             /\ Len(last.drawn) = emitter.options.num_particles
             /\ buf \in {latest, older}

C24_Witness ==
    /\ last.op = "render"
    /\ nupdates = 0
    /\ Len(last.drawn) = MaxParticles

\* C25: update leaves the pipeline state balanced: its calls begin and end
\* transform feedback once each around its single draw, and when it returns
\* rasterizer discard is disabled, no transform-feedback buffer and no
\* vertex array is bound; so the draw of a render never executes with
\* rasterizer discard enabled or a buffer bound as feedback target.
C25_UpdateLeavesPipelineBalanced ==
    /\ ~gl.rasterizer_discard
    /\ gl.transform_feedback_buffer = NoBinding
    /\ gl.vertex_array = NoBinding
    /\ last.op = "update" =>
         LET calls == last.calls
             At(name) == {k \in 1..Len(calls) : calls[k].f = name}
         IN  /\ Cardinality(At("begin_transform_feedback")) = 1
             /\ Cardinality(At("end_transform_feedback")) = 1
             /\ Cardinality(At("draw_arrays")) = 1
             /\ \A b \in At("begin_transform_feedback") :
                  \A d \in At("draw_arrays") :
                    \A e \in At("end_transform_feedback") : b < d /\ d < e
    /\ last.op = "render" =>
         /\ ~last.at_draw.rasterizer_discard
         /\ last.at_draw.transform_feedback_buffer = NoBinding

C25_Witness ==
    /\ last.op = "render"
    /\ nupdates >= 2
    /\ last.at_draw.program = "render"

C21_UpdateTouchesOnlyItsEmitter ==
    last.op = "update" /\ emitters # <<>> =>
        LET k      == last.target
            b      == last.before
            a      == b.emitters[k]
            awrite == a.buffers[UpdateWriteIndex(a.generation)]
        IN  /\ Len(emitters) = Len(b.emitters)
            /\ emitters[k].generation = a.generation + 1
            /\ emitters[k].options = a.options
            /\ emitters[k].buffers = a.buffers
            /\ buffer_store[a.buffers[UpdateReadIndex(a.generation)]]
                 = b.buffer_store[a.buffers[UpdateReadIndex(a.generation)]]
            /\ \A j \in 1..Len(emitters) :
                 j # k =>
                   /\ emitters[j] = b.emitters[j]
                   /\ \A x \in 0..1 :
                        /\ emitters[j].buffers[x] # awrite
                        /\ buffer_store[emitters[j].buffers[x]]
                             = b.buffer_store[emitters[j].buffers[x]]

C21_Witness ==
    /\ last.op = "update"
    /\ Len(emitters) = 2
    /\ emitters[1].generation >= 1
    /\ emitters[2].generation >= 1
    /\ buffer_store[emitters[last.target].buffers[
           UpdateWriteIndex(last.before.emitters[last.target].generation)]]
         # last.before.buffer_store[emitters[last.target].buffers[
           UpdateWriteIndex(last.before.emitters[last.target].generation)]]

\* C26: update is a function of the current buffer's contents, delta, the
\* options and the noise texture: when emitter A is updated and another
\* emitter B of any generation had the same options and the same
\* current-buffer contents, updating B with the same delta captures exactly
\* what was written for A; the generation is not among the kernel's inputs.
C26_UpdateIsDeterministic ==
    last.op = "update" /\ emitters # <<>> =>
        LET k       == last.target
            b       == last.before
            a       == b.emitters[k]
            written == buffer_store[a.buffers[UpdateWriteIndex(a.generation)]]
        IN  /\ "generation" \notin DOMAIN UpdateUniforms(a, last.delta)
            /\ \A j \in 1..Len(b.emitters) :
                 ( /\ j # k
                   /\ b.emitters[j].options = a.options
                   /\ SharedCurrent(b.emitters[j], b.buffer_store)
                        = SharedCurrent(a, b.buffer_store) ) =>
                     SharedUpdateOutput(program, b.emitters[j], b.buffer_store,
                                        rg_noise, last.delta) = written

C26_Witness ==
    /\ last.op = "update"
    /\ Len(emitters) = 2
    /\ \E j \in 1..2 :
         /\ j # last.target
         /\ last.before.emitters[j].generation
              # last.before.emitters[last.target].generation
         /\ last.before.emitters[j].options = last.before.emitters[last.target].options
         /\ SharedCurrent(last.before.emitters[j], last.before.buffer_store)
              = SharedCurrent(last.before.emitters[last.target], last.before.buffer_store)
         /\ SharedCurrent(emitters[last.target], buffer_store)
              # SharedCurrent(last.before.emitters[last.target], last.before.buffer_store)

====
